---- MODULE Spec2Model ----
(***************************************************************************)
(* Model of the essay text-extraction pipeline of Plataforma_agente_redacao *)
(*   src/ocr.py       ler_redacao and its engines          (Spec)           *)
(*   src/corretor.py  limpar_ruidos_ocr                    (SpecFiltro)     *)
(*   src/corretor.py  gerar_analise_comparativa            (SpecComp)       *)
(*   src/app.py       the /corrigir-arquivo handler        (SpecApp)        *)
(* A text is a sequence of one-character strings.  Each specification runs  *)
(* one part of the program and leaves the variables of the others at rest.  *)
(***************************************************************************)
EXTENDS Integers, Sequences, FiniteSets, TLC

VARIABLES
    arquivo,        \* ler_redacao: the uploaded document
    pc,             \* ler_redacao: the step the call is at
    file_bytes,     \* ler_redacao: what file_bytes holds
    content_type,   \* ler_redacao: the local content_type
    processed,      \* ler_redacao: what preprocess_image_for_ocr returned
    texto,          \* ler_redacao: what ocr_gemini returned
    texto_fallback, \* ler_redacao: what ocr_tesseract returned
    resultado,      \* ler_redacao: the returned text
    chamadas,       \* ler_redacao: the calls made so far, <<function, bytes given>>
    resposta_gemini,    \* ler_redacao: what generate_content did
    resposta_tesseract, \* ler_redacao: what Tesseract did
    entrada,        \* limpar_ruidos_ocr: the text given to the first pass
    saida,          \* limpar_ruidos_ocr: the results of the passes made so far
    av_original,    \* gerar_analise_comparativa: the first scoring result
    av_corrigida,   \* gerar_analise_comparativa: the second scoring result
    comparativo,    \* gerar_analise_comparativa: what the call gave
    upload,         \* corrigir_redacao_arquivo: the uploaded file
    pcApp,          \* corrigir_redacao_arquivo: the step the request is at
    mime_type_para_ocr, \* corrigir_redacao_arquivo: the local of that name
    texto_extraido, \* corrigir_redacao_arquivo: texto
    texto_limpo,    \* corrigir_redacao_arquivo: the local of that name
    texto_corrigido,    \* corrigir_redacao_arquivo: the local of that name
    avaliacoes,     \* corrigir_redacao_arquivo: avaliacao_original, avaliacao_corrigida
    chamadasApp,    \* corrigir_redacao_arquivo: the calls made, <<function, text given>>
    http            \* corrigir_redacao_arquivo: the status answered, 0 while running

varsLer ==
    <<arquivo, pc, file_bytes, content_type, processed, texto, texto_fallback,
      resultado, chamadas, resposta_gemini, resposta_tesseract>>

varsFiltro == <<entrada, saida>>

varsComp == <<av_original, av_corrigida, comparativo>>

varsApp ==
    <<upload, pcApp, mime_type_para_ocr, texto_extraido, texto_limpo,
      texto_corrigido, avaliacoes, chamadasApp, http>>

vars == <<varsLer, varsFiltro, varsComp, varsApp>>

\* no call made yet
SemResposta == [tipo |-> "nenhuma", text |-> <<>>]

\* the values of the variables of a part of the program that is not running
ParadoLer ==
    /\ arquivo = [content_type |-> "None", vazio |-> TRUE, paginas |-> <<>>,
                  decodifica |-> FALSE]
    /\ pc = "parado"
    /\ file_bytes = "nada"
    /\ content_type = "nada"
    /\ processed = "nada"
    /\ texto = <<>>
    /\ texto_fallback = <<>>
    /\ resultado = <<>>
    /\ chamadas = <<>>
    /\ resposta_gemini = SemResposta
    /\ resposta_tesseract = SemResposta

ParadoFiltro ==
    /\ entrada = <<>>
    /\ saida = <<>>

ParadoComp ==
    /\ av_original = [t |-> "dict", v |-> <<>>]
    /\ av_corrigida = [t |-> "dict", v |-> <<>>]
    /\ comparativo = [t |-> "nenhum", v |-> <<>>]

ParadoApp ==
    /\ upload = [content_type |-> "None", vazio |-> TRUE]
    /\ pcApp = "parado"
    /\ mime_type_para_ocr = "nada"
    /\ texto_extraido = <<>>
    /\ texto_limpo = <<>>
    /\ texto_corrigido = <<>>
    /\ avaliacoes = <<>>
    /\ chamadasApp = <<>>
    /\ http = 0

(***************************************************************************)
(* Character classes (Python's str.isspace / isalpha / isalnum, restricted  *)
(* to the characters the model's texts are built from).                     *)
(***************************************************************************)
Espacos == {" ", "\t", "\n"}

Letras == {"a", "e", "i", "o", "u", "c", "s", "w", "x", "y", "z"}

Digitos == {"1"}

\* the character class of the regular expression in filtro_palavra
Vogais ==
    {"a", "e", "i", "o", "u", "á", "é", "í", "ó", "ú", "â", "ê", "ô", "ã", "õ",
     "A", "E", "I", "O", "U", "Á", "É", "Í", "Ó", "Ú", "Â", "Ê", "Ô", "Ã", "Õ"}

isspace(c) == c \in Espacos

isalpha(c) == c \in Letras

isalnum(c) == c \in Letras \cup Digitos

(***************************************************************************)
(* Python string primitives used by the code.                               *)
(***************************************************************************)
RECURSIVE lstrip(_)
lstrip(s) ==
    IF s = <<>> THEN <<>>
    ELSE IF isspace(Head(s)) THEN lstrip(Tail(s)) ELSE s

RECURSIVE rstrip(_)
rstrip(s) ==
    IF s = <<>> THEN <<>>
    ELSE IF isspace(s[Len(s)]) THEN rstrip(SubSeq(s, 1, Len(s) - 1)) ELSE s

\* str.strip()
strip(s) == rstrip(lstrip(s))

\* str.splitlines(): one line per terminator, and the rest when not empty
RECURSIVE splitlinesAcc(_, _, _)
splitlinesAcc(s, cur, acc) ==
    IF s = <<>> THEN (IF cur = <<>> THEN acc ELSE Append(acc, cur))
    ELSE IF Head(s) = "\n" THEN splitlinesAcc(Tail(s), <<>>, Append(acc, cur))
    ELSE splitlinesAcc(Tail(s), Append(cur, Head(s)), acc)

splitlines(s) == splitlinesAcc(s, <<>>, <<>>)

\* str.split("\n"): the rest is a field even when empty
RECURSIVE splitNlAcc(_, _, _)
splitNlAcc(s, cur, acc) ==
    IF s = <<>> THEN Append(acc, cur)
    ELSE IF Head(s) = "\n" THEN splitNlAcc(Tail(s), <<>>, Append(acc, cur))
    ELSE splitNlAcc(Tail(s), Append(cur, Head(s)), acc)

splitNl(s) == splitNlAcc(s, <<>>, <<>>)

\* str.split(): fields separated by runs of whitespace, none empty
RECURSIVE splitWsAcc(_, _, _)
splitWsAcc(s, cur, acc) ==
    IF s = <<>> THEN (IF cur = <<>> THEN acc ELSE Append(acc, cur))
    ELSE IF isspace(Head(s))
         THEN splitWsAcc(Tail(s), <<>>, IF cur = <<>> THEN acc ELSE Append(acc, cur))
    ELSE splitWsAcc(Tail(s), Append(cur, Head(s)), acc)

splitWs(s) == splitWsAcc(s, <<>>, <<>>)

\* sep.join(parts)
RECURSIVE join(_, _)
join(sep, parts) ==
    IF parts = <<>> THEN <<>>
    ELSE IF Len(parts) = 1 THEN parts[1]
    ELSE parts[1] \o sep \o join(sep, Tail(parts))

\* re.sub(r"[ \t]+", " ", s)
RECURSIVE subEspacos(_)
subEspacos(s) ==
    IF s = <<>> THEN <<>>
    ELSE IF Head(s) \in {" ", "\t"}
         THEN IF Tail(s) # <<>> /\ Head(Tail(s)) \in {" ", "\t"}
              THEN subEspacos(Tail(s))
              ELSE <<" ">> \o subEspacos(Tail(s))
    ELSE <<Head(s)>> \o subEspacos(Tail(s))

(***************************************************************************)
(* limpar_ruidos_ocr (src/corretor.py)                                      *)
(***************************************************************************)
MinSimbolos == 3

MinPalavra == 4

\* letras = sum(c.isalpha() for c in linha)
letras(linha) == Cardinality({i \in 1..Len(linha) : isalpha(linha[i])})

\* simbolos = sum(not c.isalnum() and not c.isspace() for c in linha)
simbolos(linha) ==
    Cardinality({i \in 1..Len(linha) : ~isalnum(linha[i]) /\ ~isspace(linha[i])})

\* the line-drop rule: a non-empty line with no letter and more than 3 symbols
linhaDescartada(linha) ==
    /\ Len(linha) > 0
    /\ letras(linha) = 0
    /\ simbolos(linha) > MinSimbolos

\* linhas = [linha.strip() for linha in texto.splitlines()]
linhas(t) == [i \in 1..Len(splitlines(t)) |-> strip(splitlines(t)[i])]

linhas_limpa(t) == SelectSeq(linhas(t), LAMBDA l : ~linhaDescartada(l))

temVogal(p) == \E i \in 1..Len(p) : p[i] \in Vogais

\* filtro_palavra with the length test off by one (len(p) > 4)
filtro_palavra_longa(p) ==
    IF Len(p) > MinPalavra
    THEN (IF ~temVogal(p) THEN FALSE ELSE TRUE)
    ELSE TRUE

filtro_palavra(p) ==
    IF Len(p) >= MinPalavra
    THEN (IF ~temVogal(p) THEN FALSE ELSE TRUE)
    ELSE TRUE

filtraParagrafo(par) == join(<<" ">>, SelectSeq(splitWs(par), filtro_palavra))

paragrafos(texto2) ==
    [i \in 1..Len(splitNl(texto2)) |-> filtraParagrafo(splitNl(texto2)[i])]

limpar_ruidos_ocr(t) ==
    LET texto2 == subEspacos(join(<<"\n">>, linhas_limpa(t)))
    IN  strip(join(<<"\n">>, paragrafos(texto2)))

(***************************************************************************)
(* ler_redacao (src/ocr.py)                                                 *)
(***************************************************************************)
LimiarGemini == 50

MaxPaginas == 2

MaxMargem == 1

\* n times the character c
Rep(c, n) == [i \in 1..n |-> c]

\* the text of one PDF page, as page.get_text() gives it
TextosDePagina == {<<>>, <<" ", "\n">>, <<"a", "\n">>, <<"\n", "c", " ">>}

TiposDeConteudo ==
    {"application/pdf", "image/jpeg", "image/png", "text/plain", "None"}

\* the documents: content_type as declared ("None": the attribute is missing
\* or None); vazio: read() gives no bytes; paginas: the page texts of a
\* well-formed PDF; decodifica: cv2.imdecode can decode the bytes
Documentos ==
    [content_type : TiposDeConteudo, vazio : {TRUE}, paginas : {<<>>},
     decodifica : {FALSE}]
    \cup
    [content_type : {"application/pdf"}, vazio : {FALSE},
     paginas : UNION {[1..n -> TextosDePagina] : n \in 1..MaxPaginas},
     decodifica : {FALSE}]
    \cup
    [content_type : TiposDeConteudo \ {"application/pdf"}, vazio : {FALSE},
     paginas : {<<>>}, decodifica : BOOLEAN]

\* response.text of the AI call, or page text of Tesseract: a body of
\* letters between margins of whitespace
TextosBrutos ==
    {Rep(e, i) \o Rep("a", n) \o Rep(d, j) :
        e \in {" ", "\n"}, d \in {" ", "\n"},
        i \in 0..MaxMargem, j \in 0..MaxMargem,
        n \in {0, 1, LimiarGemini - 1, LimiarGemini, LimiarGemini + 1}}

\* what client.models.generate_content does: it answers (response.text a
\* string or None), raises ClientError, or raises another error (ServerError,
\* a transport error)
RespostasGemini ==
    [tipo : {"texto"}, text : TextosBrutos]
    \cup [tipo : {"None", "ClientError", "OutroErro"}, text : {<<>>}]

\* what Image.open and pytesseract.image_to_string do
RespostasTesseract ==
    [tipo : {"texto"}, text : TextosBrutos]
    \cup [tipo : {"None", "ErroAbrir", "ErroMotor"}, text : {<<>>}]

\* if not file_bytes
semConteudo(doc) == doc.vazio

\* tipoDeclarado with an image type as the default
tipoDeclarado_padrao_png(doc) ==
    IF doc.content_type = "None" THEN "image/png"
    ELSE doc.content_type

\* getattr(arquivo, "content_type", None) or "application/octet-stream"
tipoDeclarado(doc) ==
    IF doc.content_type = "None" THEN "application/octet-stream"
    ELSE doc.content_type

ehImagem(ct) == ct \in {"image/jpeg", "image/png"}

pdf_possui_texto(paginas) == \E i \in 1..Len(paginas) : strip(paginas[i]) # <<>>

\* textoPdf with the pages joined by nothing
textoPdf_sem_separador(paginas) == strip(join(<<>>, paginas))

\* "\n".join(texto_pdf).strip()
textoPdf(paginas) == strip(join(<<"\n">>, paginas))

\* the bytes preprocess_image_for_ocr returns: the input when imdecode or
\* imencode fails, the normalized PNG otherwise
preprocess_image_for_ocr(bytes, decodifica, codifica) ==
    IF ~decodifica THEN bytes
    ELSE IF ~codifica THEN bytes
    ELSE "normalizada"

\* ocr_gemini without the strip of response.text
ocr_gemini_sem_strip(resp) ==
    IF resp.tipo = "ClientError" THEN <<>>
    ELSE IF resp.tipo = "None" THEN <<>> ELSE resp.text

\* ocr_gemini when generate_content does not raise past it
ocr_gemini(resp) ==
    IF resp.tipo = "ClientError" THEN <<>>
    ELSE strip(IF resp.tipo = "None" THEN <<>> ELSE resp.text)

geminiLevanta(resp) == resp.tipo = "OutroErro"

ocr_tesseract(resp) ==
    IF resp.tipo \in {"ErroAbrir", "ErroMotor"} THEN <<>>
    ELSE strip(IF resp.tipo = "None" THEN <<>> ELSE resp.text)

\* aceitaGemini with >= for >
aceitaGemini_ge(t) == t # <<>> /\ Len(strip(t)) >= LimiarGemini

\* aceitaGemini with the threshold one too high
aceitaGemini_51(t) == t # <<>> /\ Len(strip(t)) > LimiarGemini + 1

\* if texto and len(texto.strip()) > 50
aceitaGemini(t) == t # <<>> /\ Len(strip(t)) > LimiarGemini

InitLer ==
    /\ ParadoFiltro
    /\ ParadoComp
    /\ ParadoApp
    /\ arquivo \in Documentos
    /\ pc = "read"
    /\ file_bytes = "nada"
    /\ content_type = "nada"
    /\ processed = "nada"
    /\ texto = <<>>
    /\ texto_fallback = <<>>
    /\ resultado = <<>>
    /\ chamadas = <<>>
    /\ resposta_gemini = SemResposta
    /\ resposta_tesseract = SemResposta

Retorna(t) ==
    /\ pc' = "done"
    /\ resultado' = t

\* file_bytes = await arquivo.read(); if not file_bytes: return ""
Ler ==
    /\ pc = "read"
    /\ chamadas' = Append(chamadas, <<"read", "arquivo">>)
    /\ IF semConteudo(arquivo)
       THEN /\ Retorna(<<>>)
            /\ UNCHANGED <<file_bytes, content_type>>
       ELSE /\ file_bytes' = "original"
            /\ content_type' = tipoDeclarado(arquivo)
            /\ pc' = "classify"
            /\ UNCHANGED resultado
    /\ UNCHANGED <<arquivo, processed, texto, texto_fallback, resposta_gemini,
                   resposta_tesseract, varsFiltro, varsComp, varsApp>>

\* the branch on content_type of a PDF: pdf_possui_texto(file_bytes)
ClassificarPdf ==
    /\ pc = "classify"
    /\ content_type = "application/pdf"
    /\ chamadas' = Append(chamadas, <<"fitz.open", file_bytes>>)
    /\ pc' = IF pdf_possui_texto(arquivo.paginas) THEN "pdf_texto" ELSE "render"
    /\ UNCHANGED <<arquivo, file_bytes, content_type, processed, texto,
                   texto_fallback, resultado, resposta_gemini,
                   resposta_tesseract, varsFiltro, varsComp, varsApp>>

\* the native PDF: the pages' texts joined, trimmed and returned
ExtrairPdf ==
    /\ pc = "pdf_texto"
    /\ chamadas' = Append(chamadas, <<"fitz.open", file_bytes>>)
    /\ Retorna(textoPdf(arquivo.paginas))
    /\ UNCHANGED <<arquivo, file_bytes, content_type, processed, texto,
                   texto_fallback, resposta_gemini, resposta_tesseract,
                   varsFiltro, varsComp, varsApp>>

\* file_bytes = render_pdf_to_image(file_bytes); content_type = "image/png"
RenderizarPdf ==
    /\ pc = "render"
    /\ chamadas' = Append(chamadas, <<"render_pdf_to_image", file_bytes>>)
    /\ file_bytes' = "png_da_pagina_1"
    /\ content_type' = "image/png"
    /\ pc' = "classify"
    /\ UNCHANGED <<arquivo, processed, texto, texto_fallback, resultado,
                   resposta_gemini, resposta_tesseract, varsFiltro, varsComp, varsApp>>

\* processed = preprocess_image_for_ocr(file_bytes)
Preprocessar ==
    /\ pc = "classify"
    /\ ehImagem(content_type)
    /\ chamadas' = Append(chamadas, <<"preprocess_image_for_ocr", file_bytes>>)
    /\ \E codifica \in BOOLEAN :
         processed' = preprocess_image_for_ocr(
                        file_bytes,
                        file_bytes = "png_da_pagina_1" \/ arquivo.decodifica,
                        codifica)
    /\ pc' = "gemini"
    /\ UNCHANGED <<arquivo, file_bytes, content_type, texto, texto_fallback,
                   resultado, resposta_gemini, resposta_tesseract, varsFiltro, varsComp, varsApp>>

\* neither PDF nor image: the final return ""
NaoSuportado ==
    /\ pc = "classify"
    /\ content_type # "application/pdf"
    /\ ~ehImagem(content_type)
    /\ Retorna(<<>>)
    /\ UNCHANGED <<arquivo, file_bytes, content_type, processed, texto,
                   texto_fallback, chamadas, resposta_gemini,
                   resposta_tesseract, varsFiltro, varsComp, varsApp>>

\* texto = ocr_gemini(processed, "image/png")
ChamarGemini ==
    /\ pc = "gemini"
    /\ chamadas' = Append(chamadas, <<"ocr_gemini", processed>>)
    /\ \E resp \in RespostasGemini :
         /\ resposta_gemini' = resp
         /\ IF geminiLevanta(resp)
            THEN /\ pc' = "raised"
                 /\ UNCHANGED texto
            ELSE /\ texto' = ocr_gemini(resp)
                 /\ pc' = "gate"
    /\ UNCHANGED <<arquivo, file_bytes, content_type, processed,
                   texto_fallback, resultado, resposta_tesseract, varsFiltro, varsComp, varsApp>>

\* if texto and len(texto.strip()) > 50: return texto
Aceitar ==
    /\ pc = "gate"
    /\ aceitaGemini(texto)
    /\ Retorna(texto)
    /\ UNCHANGED <<arquivo, file_bytes, content_type, processed, texto,
                   texto_fallback, chamadas, resposta_gemini,
                   resposta_tesseract, varsFiltro, varsComp, varsApp>>

\* texto_fallback = ocr_tesseract(processed); return it, or "" when empty
ChamarTesseract ==
    /\ pc = "gate"
    /\ ~aceitaGemini(texto)
    /\ chamadas' = Append(chamadas, <<"ocr_tesseract", processed>>)
    /\ \E resp \in RespostasTesseract :
         /\ resposta_tesseract' = resp
         /\ texto_fallback' = ocr_tesseract(resp)
         /\ Retorna(IF ocr_tesseract(resp) # <<>> THEN ocr_tesseract(resp) ELSE <<>>)
    /\ UNCHANGED <<arquivo, file_bytes, content_type, processed, texto,
                   resposta_gemini, varsFiltro, varsComp, varsApp>>

Next ==
    \/ Ler
    \/ ClassificarPdf
    \/ ExtrairPdf
    \/ RenderizarPdf
    \/ Preprocessar
    \/ NaoSuportado
    \/ ChamarGemini
    \/ Aceitar
    \/ ChamarTesseract

Spec == InitLer /\ [][Next]_vars

(***************************************************************************)
(* Properties of ler_redacao                                                *)
(***************************************************************************)
Chamou(f) == \E i \in 1..Len(chamadas) : chamadas[i][1] = f

Vezes(f) == Cardinality({i \in 1..Len(chamadas) : chamadas[i][1] = f})

\* the trimmed text of the AI transcription ("" when the call was rejected
\* or response.text is None)
textoDaIA ==
    IF resposta_gemini.tipo = "texto" THEN strip(resposta_gemini.text) ELSE <<>>

\* the AI engine was called and returned
geminiRetornou == resposta_gemini.tipo \in {"texto", "None", "ClientError"}

\* the document is a PDF with non-whitespace text on at least one page
pdfNativo ==
    /\ ~arquivo.vazio
    /\ arquivo.content_type = "application/pdf"
    /\ \E i \in 1..Len(arquivo.paginas) :
          \E k \in 1..Len(arquivo.paginas[i]) : arquivo.paginas[i][k] \notin Espacos

naoSuportado ==
    \/ arquivo.vazio
    \/ arquivo.content_type \notin {"application/pdf", "image/jpeg", "image/png"}

(***************************************************************************)
(* C1: when the AI transcription's trimmed text is longer than 50, the      *)
(* returned text is exactly that trimmed text, and the traditional OCR      *)
(* engine plays no part.                                                    *)
(***************************************************************************)
C1_AceitaIA ==
    (pc = "done" /\ geminiRetornou /\ Len(textoDaIA) > 50) =>
        /\ resultado = textoDaIA
        /\ ~Chamou("ocr_tesseract")

\* a run returned an AI text of 51 characters that came with margins
C1_Witness ==
    /\ pc = "done"
    /\ resposta_gemini.tipo = "texto"
    /\ Len(textoDaIA) = 51
    /\ Len(resposta_gemini.text) > 51
    /\ resultado = textoDaIA

(***************************************************************************)
(* C2: when the AI transcription's trimmed text has at most 50 characters   *)
(* (the empty text of a rejected call included), the returned text is what  *)
(* ocr_tesseract returned for the same normalized image, even when that is  *)
(* empty or shorter than the AI text.                                       *)
(***************************************************************************)
C2_Fallback ==
    (pc = "done" /\ geminiRetornou /\ Len(textoDaIA) <= 50) =>
        /\ Chamou("ocr_tesseract")
        /\ \A i \in 1..Len(chamadas) :
              chamadas[i][1] \in {"ocr_gemini", "ocr_tesseract"} =>
                  chamadas[i][2] = processed
        /\ resultado = texto_fallback
        /\ resultado =
              IF resposta_tesseract.tipo = "texto"
              THEN strip(resposta_tesseract.text) ELSE <<>>

\* a run returned Tesseract's empty or shorter result over an AI text of 50
C2_Witness ==
    /\ pc = "done"
    /\ Len(textoDaIA) = 50
    /\ Len(resultado) < 50
    /\ Chamou("ocr_tesseract")

(***************************************************************************)
(* C4 as stated: for a PDF with non-whitespace text on some page, the       *)
(* returned text is the pages' texts, in order, joined by single newlines,  *)
(* and neither the normalizer nor a transcription engine is invoked.        *)
(***************************************************************************)
C4_PdfJuntado ==
    (pc = "done" /\ pdfNativo) =>
        /\ resultado = join(<<"\n">>, arquivo.paginas)
        /\ ~Chamou("preprocess_image_for_ocr")
        /\ ~Chamou("ocr_gemini")
        /\ ~Chamou("ocr_tesseract")

(***************************************************************************)
(* C4 amended: the returned text is that join with the leading and trailing *)
(* whitespace of the whole removed; no normalizer, no engine.               *)
(***************************************************************************)
C4_PdfJuntadoAparado ==
    (pc = "done" /\ pdfNativo) =>
        /\ resultado = strip(join(<<"\n">>, arquivo.paginas))
        /\ ~Chamou("preprocess_image_for_ocr")
        /\ ~Chamou("ocr_gemini")
        /\ ~Chamou("ocr_tesseract")
        /\ ~Chamou("render_pdf_to_image")

\* a two-page native PDF was returned, trimmed, with the newline between the
\* pages kept
C4_Witness ==
    /\ pc = "done"
    /\ pdfNativo
    /\ Len(arquivo.paginas) = 2
    /\ resultado # join(<<"\n">>, arquivo.paginas)
    /\ \E k \in 1..Len(resultado) : resultado[k] = "\n"

(***************************************************************************)
(* C5: a run of ler_redacao never raises: every failure of the AI call, of  *)
(* the traditional OCR call or of image decoding degrades to the empty      *)
(* string or to the unmodified input, and the run goes on to return a text. *)
(***************************************************************************)
C5_NuncaLevanta ==
    /\ pc # "raised"
    /\ (pc \notin {"done", "raised"}) => ENABLED Next

(***************************************************************************)
(* C6: each transcription engine is invoked at most once; ocr_tesseract     *)
(* only after one call of ocr_gemini whose trimmed text was not longer than *)
(* 50; ocr_gemini never after ocr_tesseract.                                *)
(***************************************************************************)
C6_UmaVezCadaMotor ==
    /\ Vezes("ocr_gemini") <= 1
    /\ Vezes("ocr_tesseract") <= 1
    /\ \A j \in 1..Len(chamadas) :
          chamadas[j][1] = "ocr_tesseract" =>
              /\ \E i \in 1..(j - 1) : chamadas[i][1] = "ocr_gemini"
              /\ \A i \in (j + 1)..Len(chamadas) : chamadas[i][1] # "ocr_gemini"
              /\ geminiRetornou
              /\ Len(textoDaIA) <= 50
              /\ Len(strip(texto)) <= 50

\* both engines ran, the AI engine first
C6_Witness ==
    /\ pc = "done"
    /\ Vezes("ocr_gemini") = 1
    /\ Vezes("ocr_tesseract") = 1
    /\ Len(textoDaIA) = 50
    /\ resposta_tesseract.tipo = "ErroMotor"

(***************************************************************************)
(* C7: for an empty payload or a content type other than application/pdf,   *)
(* image/jpeg, image/png, the result is the empty string and no pipeline    *)
(* step runs (no PDF opened, no rasterization, no normalization, no engine).*)
(***************************************************************************)
C7_NaoSuportadoSemEfeito ==
    naoSuportado =>
        /\ pc \in {"read", "classify", "done"}
        /\ \A i \in 1..Len(chamadas) : chamadas[i][1] = "read"
        /\ pc = "done" => resultado = <<>>

\* an empty PDF, and a non-empty document of an unsupported type, were
\* answered with the empty string
C7_Witness ==
    /\ pc = "done"
    /\ naoSuportado
    /\ \/ arquivo.vazio /\ arquivo.content_type = "application/pdf"
       \/ ~arquivo.vazio /\ arquivo.content_type = "text/plain"
    /\ resultado = <<>>

(***************************************************************************)
(* gerar_analise_comparativa (src/corretor.py).  A JSON value is a record   *)
(* [t, v]: null, an integer, or a dict (v a function from key to value).    *)
(***************************************************************************)
Null == [t |-> "null", v |-> <<>>]

Num(n) == [t |-> "int", v |-> ("n" :> n)]

\* the integer of a JSON number
int(x) == x.v["n"]

Dict(f) == [t |-> "dict", v |-> f]

DictVazio == Dict(<<>>)

\* the call of .get on a value that is not a dict
AttributeError == [t |-> "AttributeError", v |-> <<>>]

comps == {"comp1", "comp2", "comp3", "comp4", "comp5"}

\* d.get(k, padrao), d a dict
get(d, k, padrao) == IF k \in DOMAIN d.v THEN d.v[k] ELSE padrao

\* x or 0
ouZero(x) == IF x.t = "null" \/ (x.t = "int" /\ int(x) = 0) THEN Num(0) ELSE x

\* av.get("competencias", {}).get(c, {}).get("nota", 0) or 0
nota(av, c) ==
    LET cs == get(av, "competencias", DictVazio)
    IN  IF cs.t # "dict" THEN AttributeError
        ELSE LET comp == get(cs, c, DictVazio)
             IN  IF comp.t # "dict" THEN AttributeError
                 ELSE ouZero(get(comp, "nota", Num(0)))

\* av.get("nota_total", 0) or 0
nota_total(av) == ouZero(get(av, "nota_total", Num(0)))

gerar_analise_comparativa(orig, corr) ==
    IF \E c \in comps : nota(orig, c).t # "int" \/ nota(corr, c).t # "int"
    THEN AttributeError
    ELSE Dict([nota_total_original |-> int(nota_total(orig)),
               nota_total_corrigida |-> int(nota_total(corr)),
               ganho_total |-> int(nota_total(corr)) - int(nota_total(orig)),
               deltas_competencias |->
                   [c \in comps |->
                       [nota_original |-> int(nota(orig, c)),
                        nota_corrigida |-> int(nota(corr, c)),
                        ganho |-> int(nota(corr, c)) - int(nota(orig, c))]],
               analise_textual |->
                   <<int(nota_total(orig)), int(nota_total(corr)),
                     int(nota_total(corr)) - int(nota_total(orig))>>])

\* one competency of a scoring result: absent, null, or a dict whose nota is
\* absent, null or a score
Competencias1 ==
    {Null, DictVazio, Dict("nota" :> Null), Dict("nota" :> Num(0)),
     Dict("nota" :> Num(120)), Dict("nota" :> Num(200))}

\* the "competencias" of a scoring result: comp1 and comp2 vary, comp3..comp5
\* are all present or all absent
TodasCompetencias ==
    {Dict(f1 @@ f2 @@ f3) :
        f1 \in {<<>>} \cup {"comp1" :> x : x \in Competencias1},
        f2 \in {<<>>, "comp2" :> Dict("nota" :> Num(80)), "comp2" :> Null},
        f3 \in {<<>>,
                [c \in {"comp3", "comp4", "comp5"} |-> Dict("nota" :> Num(160))]}}

\* what avaliar_redacao returns: the parsed JSON object, or the error object
\* {"erro": ..., "raw": ...}
Avaliacoes ==
    {Dict(f1 @@ f2) :
        f1 \in {"erro" :> Num(1), "competencias" :> Null}
               \cup {"competencias" :> x : x \in TodasCompetencias},
        f2 \in {<<>>, "nota_total" :> Null, "nota_total" :> Num(480),
                "nota_total" :> Num(560)}}

InitComp ==
    /\ av_original \in Avaliacoes
    /\ av_corrigida \in Avaliacoes
    /\ comparativo = [t |-> "nenhum", v |-> <<>>]
    /\ ParadoLer
    /\ ParadoFiltro
    /\ ParadoApp

\* comparativo = gerar_analise_comparativa(avaliacao_original, avaliacao_corrigida)
Comparar ==
    /\ comparativo.t = "nenhum"
    /\ comparativo' = gerar_analise_comparativa(av_original, av_corrigida)
    /\ UNCHANGED <<av_original, av_corrigida, varsLer, varsFiltro, varsApp>>

NextComp == Comparar

SpecComp == InitComp /\ [][NextComp]_vars

(***************************************************************************)
(* C9: gerar_analise_comparativa never fails; each competency's delta is    *)
(* the rewritten score minus the original score and the aggregate delta is  *)
(* the rewritten total minus the original total, where a missing or null    *)
(* competency, score or total counts as 0.                                  *)
(***************************************************************************)
notaOuZero(av, c) ==
    IF "competencias" \notin DOMAIN av.v \/ av.v["competencias"].t # "dict" THEN 0
    ELSE IF c \notin DOMAIN av.v["competencias"].v THEN 0
    ELSE IF av.v["competencias"].v[c].t # "dict" THEN 0
    ELSE IF "nota" \notin DOMAIN av.v["competencias"].v[c].v THEN 0
    ELSE IF av.v["competencias"].v[c].v["nota"].t # "int" THEN 0
    ELSE int(av.v["competencias"].v[c].v["nota"])

totalOuZero(av) ==
    IF "nota_total" \notin DOMAIN av.v \/ av.v["nota_total"].t # "int" THEN 0
    ELSE int(av.v["nota_total"])

C9_DeltasSemFalhar ==
    comparativo.t # "nenhum" =>
        /\ comparativo.t = "dict"
        /\ \A c \in comps :
              comparativo.v.deltas_competencias[c].ganho =
                  notaOuZero(av_corrigida, c) - notaOuZero(av_original, c)
        /\ comparativo.v.ganho_total =
              totalOuZero(av_corrigida) - totalOuZero(av_original)

(***************************************************************************)
(* corrigir_redacao_arquivo, the /corrigir-arquivo handler (src/app.py)     *)
(***************************************************************************)
Uploads == [content_type : TiposDeConteudo, vazio : BOOLEAN]

Casa == <<"c", "a", "s", "a">>

\* response.text of the extraction call
TextosDeOCR ==
    {<<>>, <<" ">>, Casa, <<"x", "y", "z", "w">>, <<"!", "!", "!", "!", "!", "!">>,
     <<" ">> \o Casa \o <<"\n", "x", "y", "z", "w", " ">>,
     Rep("a", 19), Rep("a", 20),
     join(<<" ">>, Rep(Casa, 5))}

\* what a call of client.models.generate_content for a text does
RespostasDeTexto ==
    [tipo : {"texto"}, text : TextosDeOCR]
    \cup [tipo : {"None", "Erro"}, text : {<<>>}]

\* what the scoring call's response.text holds: the JSON of a scoring
\* result, or something json.loads rejects; or the call raises
RespostasDeAvaliacao ==
    {[tipo |-> "json",
      valor |-> Dict("competencias" :> Dict("comp1" :> Dict("nota" :> Num(120)))
                     @@ "nota_total" :> Num(480))],
     [tipo |-> "json",
      valor |-> Dict("competencias" :> Dict("comp1" :> Dict("nota" :> Num(200)))
                     @@ "nota_total" :> Num(560))],
     [tipo |-> "json",
      valor |-> Dict("competencias" :> Dict("comp1" :> Null))],
     [tipo |-> "invalido", valor |-> DictVazio],
     [tipo |-> "Erro", valor |-> DictVazio]}

tiposAceitos == {"application/pdf", "image/png", "image/jpeg"}

\* extrair_texto_de_arquivo when generate_content answers
extrair_texto_de_arquivo(resp) ==
    strip(IF resp.tipo = "None" THEN <<>> ELSE resp.text)

\* if not texto or len(texto.strip()) == 0
semTexto(t) == t = <<>> \/ Len(strip(t)) = 0

\* avaliar_redacao when generate_content answers
avaliar_redacao(resp) ==
    IF resp.tipo = "json" THEN resp.valor
    ELSE Dict("erro" :> Num(1) @@ "raw" :> Num(1))

InitApp ==
    /\ upload \in Uploads
    /\ pcApp = "validar"
    /\ mime_type_para_ocr = "nada"
    /\ texto_extraido = <<>>
    /\ texto_limpo = <<>>
    /\ texto_corrigido = <<>>
    /\ avaliacoes = <<>>
    /\ chamadasApp = <<>>
    /\ http = 0
    /\ ParadoLer
    /\ ParadoFiltro
    /\ ParadoComp

Responde(status) ==
    /\ pcApp' = "respondido"
    /\ http' = status

\* the content type check, then read() and the empty-file check
ValidarELer ==
    /\ pcApp = "validar"
    /\ IF upload.content_type \notin tiposAceitos \/ upload.vazio
       THEN /\ Responde(400)
            /\ UNCHANGED mime_type_para_ocr
       ELSE /\ mime_type_para_ocr' = upload.content_type
            /\ pcApp' = "preprocessar"
            /\ UNCHANGED http
    /\ UNCHANGED <<upload, texto_extraido, texto_limpo, texto_corrigido,
                   avaliacoes, chamadasApp, varsLer, varsFiltro, varsComp>>

\* images go through preprocess_image_bytes and are sent as image/png
PreprocessarApp ==
    /\ pcApp = "preprocessar"
    /\ IF upload.content_type \in {"image/png", "image/jpeg"}
       THEN /\ chamadasApp' = Append(chamadasApp, <<"preprocess_image_bytes", <<>>>>)
            /\ mime_type_para_ocr' = "image/png"
       ELSE UNCHANGED <<chamadasApp, mime_type_para_ocr>>
    /\ pcApp' = "extrair"
    /\ UNCHANGED <<upload, texto_extraido, texto_limpo, texto_corrigido,
                   avaliacoes, http, varsLer, varsFiltro, varsComp>>

\* texto = extrair_texto_de_arquivo(...); texto_limpo = limpar_ruidos_ocr(texto);
\* the empty check on texto
ExtrairELimpar ==
    /\ pcApp = "extrair"
    /\ chamadasApp' = Append(chamadasApp, <<"extrair_texto_de_arquivo", <<>>>>)
    /\ \E resp \in RespostasDeTexto :
         IF resp.tipo = "Erro"
         THEN /\ Responde(500)
              /\ UNCHANGED <<texto_extraido, texto_limpo>>
         ELSE /\ texto_extraido' = extrair_texto_de_arquivo(resp)
              /\ texto_limpo' = limpar_ruidos_ocr(extrair_texto_de_arquivo(resp))
              /\ IF semTexto(extrair_texto_de_arquivo(resp))
                 THEN Responde(400)
                 ELSE /\ pcApp' = "avaliar"
                      /\ UNCHANGED http
    /\ UNCHANGED <<upload, mime_type_para_ocr, texto_corrigido, avaliacoes,
                   varsLer, varsFiltro, varsComp>>

\* avaliacao_original = avaliar_redacao(texto_limpo, tema)
AvaliarOriginal ==
    /\ pcApp = "avaliar"
    /\ chamadasApp' = Append(chamadasApp, <<"avaliar_redacao", texto_limpo>>)
    /\ \E resp \in RespostasDeAvaliacao :
         IF resp.tipo = "Erro"
         THEN /\ Responde(500)
              /\ UNCHANGED avaliacoes
         ELSE /\ avaliacoes' = <<avaliar_redacao(resp)>>
              /\ pcApp' = "corrigir"
              /\ UNCHANGED http
    /\ UNCHANGED <<upload, mime_type_para_ocr, texto_extraido, texto_limpo,
                   texto_corrigido, varsLer, varsFiltro, varsComp>>

\* texto_corrigido = corrigir_gramatica_ptbr(texto_limpo): response.text.strip()
CorrigirGramatica ==
    /\ pcApp = "corrigir"
    /\ chamadasApp' = Append(chamadasApp, <<"corrigir_gramatica_ptbr", texto_limpo>>)
    /\ \E resp \in RespostasDeTexto :
         IF resp.tipo \in {"Erro", "None"}
         THEN /\ Responde(500)
              /\ UNCHANGED texto_corrigido
         ELSE /\ texto_corrigido' = strip(resp.text)
              /\ pcApp' = "reavaliar"
              /\ UNCHANGED http
    /\ UNCHANGED <<upload, mime_type_para_ocr, texto_extraido, texto_limpo,
                   avaliacoes, varsLer, varsFiltro, varsComp>>

\* avaliacao_corrigida = avaliar_redacao(texto_corrigido, tema); the
\* comparison; the answer
ReavaliarEResponder ==
    /\ pcApp = "reavaliar"
    /\ chamadasApp' = Append(chamadasApp, <<"avaliar_redacao", texto_corrigido>>)
    /\ \E resp \in RespostasDeAvaliacao :
         IF resp.tipo = "Erro"
         THEN /\ Responde(500)
              /\ UNCHANGED avaliacoes
         ELSE /\ avaliacoes' = Append(avaliacoes, avaliar_redacao(resp))
              /\ Responde(
                   IF gerar_analise_comparativa(avaliacoes[1], avaliar_redacao(resp)).t
                        = "AttributeError"
                   THEN 500 ELSE 200)
    /\ UNCHANGED <<upload, mime_type_para_ocr, texto_extraido, texto_limpo,
                   texto_corrigido, varsLer, varsFiltro, varsComp>>

NextApp ==
    \/ ValidarELer
    \/ PreprocessarApp
    \/ ExtrairELimpar
    \/ AvaliarOriginal
    \/ CorrigirGramatica
    \/ ReavaliarEResponder

SpecApp == InitApp /\ [][NextApp]_vars

(***************************************************************************)
(* C8: the handler rejects, with a 400, every extraction result that is     *)
(* empty or has fewer than 20 non-whitespace characters, so that neither    *)
(* avaliar_redacao nor corrigir_gramatica_ptbr is called on a cleaned text  *)
(* that is empty or has fewer than 20 non-whitespace characters.            *)
(***************************************************************************)
naoEspacos(t) == Cardinality({i \in 1..Len(t) : t[i] \notin Espacos})

C8_RejeitaTextoCurto ==
    /\ (pcApp \in {"avaliar", "corrigir", "reavaliar"}) =>
          /\ naoEspacos(texto_extraido) >= 20
          /\ naoEspacos(texto_limpo) >= 20
    /\ \A i \in 1..Len(chamadasApp) :
          chamadasApp[i][1] \in {"avaliar_redacao", "corrigir_gramatica_ptbr"} =>
              naoEspacos(texto_limpo) >= 20

(***************************************************************************)
(* Texts given to limpar_ruidos_ocr: up to MaxItens pieces, each a word, a  *)
(* run of symbols or a whitespace character.                                *)
(***************************************************************************)
MaxItens == 5

Itens ==
    << <<"c", "a", "s", "a">>, <<"x", "y", "z", "w">>, <<"x", "y", "z">>,
       <<"!", "!">>, <<" ">>, <<"\t">>, <<"\n">> >>

RECURSIVE Concat(_)
Concat(seqs) == IF seqs = <<>> THEN <<>> ELSE Head(seqs) \o Concat(Tail(seqs))

Entradas ==
    {Concat([i \in DOMAIN f |-> Itens[f[i]]]) :
        f \in UNION {[1..n -> 1..Len(Itens)] : n \in 0..MaxItens}}

InitFiltro ==
    /\ entrada \in Entradas
    /\ saida = <<>>
    /\ ParadoLer
    /\ ParadoComp
    /\ ParadoApp

\* texto_limpo = limpar_ruidos_ocr(texto)
Limpar ==
    /\ saida = <<>>
    /\ saida' = <<limpar_ruidos_ocr(entrada)>>
    /\ UNCHANGED <<entrada, varsLer, varsComp, varsApp>>

\* the filter applied to its own result
LimparDeNovo ==
    /\ Len(saida) = 1
    /\ saida' = Append(saida, limpar_ruidos_ocr(saida[1]))
    /\ UNCHANGED <<entrada, varsLer, varsComp, varsApp>>

NextFiltro == Limpar \/ LimparDeNovo

SpecFiltro == InitFiltro /\ [][NextFiltro]_vars

(***************************************************************************)
(* C10: on every line the line-drop rule keeps, a token is discarded if and *)
(* only if it has at least 4 characters and no vowel; the kept tokens stay  *)
(* in their order, joined by single spaces (lines joined by newlines, the   *)
(* whole trimmed).                                                          *)
(***************************************************************************)
semVogalLongo(p) == Len(p) >= 4 /\ \A i \in 1..Len(p) : p[i] \notin Vogais

tokensMantidos(linha) == SelectSeq(splitWs(linha), LAMBDA p : ~semVogalLongo(p))

C3_Idempotente == Len(saida) = 2 => saida[2] = saida[1]

====
